---- MODULE Spec2Model ----
(***************************************************************************)
(* face-rec-service/app.py: a Flask service with two POST endpoints,       *)
(* /generate-embedding and /compare-faces, in front of DeepFace.           *)
(*                                                                         *)
(* The image decoder (PIL), the JSON parser and the embedder (DeepFace)    *)
(* are external.  What each of them does with a request's bytes is part of *)
(* the request: a request carries, next to its form fields, the outcome    *)
(* of every external call the handler makes on it (a value, an exception   *)
(* of some class with some diagnostic text, or no return at all).  The     *)
(* handlers are translated statement by statement; a handler is cut in two *)
(* only at its blocking call into the embedder.                            *)
(***************************************************************************)
EXTENDS Naturals, FiniteSets

VARIABLES phase, modelLoaded, config, pc, request, response, invoked, printed

vars == <<phase, modelLoaded, config, pc, request, response, invoked, printed>>

\* Number of requests the server can have in flight at once.
NumReq == 2
\* Number of distinct diagnostic texts an exception can carry.
NumDetails == 2

Slots == 1..NumReq
Details == 1..NumDetails

\* lines 23-25
ServiceConfig ==
  [MODEL_NAME |-> "SFace", DETECTOR_BACKEND |-> "retinaface", DISTANCE_METRIC |-> "cosine"]

(***************************************************************************)
(* Outcomes of external calls.                                             *)
(***************************************************************************)
Ok(v) == [kind |-> "ok", cls |-> "none", detail |-> 0, value |-> v]
Raises(cls, d) == [kind |-> "raise", cls |-> cls, detail |-> d, value |-> "none"]
Hangs == [kind |-> "hang", cls |-> "none", detail |-> 0, value |-> "none"]
NotCalled == [kind |-> "na", cls |-> "none", detail |-> 0, value |-> "none"]

\* Image.open(BytesIO(img_bytes)).convert("RGB") on the uploaded bytes: a pixel
\* array, or an exception.  Empty and unrecognised bytes raise
\* PIL.UnidentifiedImageError, truncated data raises OSError (both OSError);
\* PIL raises ValueError for some corrupt headers.
DecodeOutcomes ==
  {Ok("pixels")} \cup {Raises(c, d) : c \in {"OSError", "ValueError"}, d \in Details}

\* DeepFace with enforce_detection=True: a result, ValueError when no face is
\* detected, another exception on a model/internal failure, or no return.
EmbedderFailures ==
  {Raises(c, d) : c \in {"ValueError", "RuntimeError"}, d \in Details} \cup {Hangs}

RepresentOutcomes == {Ok(v) : v \in {"e1", "e2"}} \cup EmbedderFailures
VerifyOutcomes == {Ok(v) : v \in {"true", "false"}} \cup EmbedderFailures

NoFaceDetected(o) == o.kind = "raise" /\ o.cls = "ValueError"
ModelError(o) == o.kind = "raise" /\ o.cls = "RuntimeError"

(***************************************************************************)
(* Requests.  face: is the multipart file field there; stored: the form    *)
(* field stored_embedding (absent, the empty string, text that is not      *)
(* JSON, a JSON array of the wrong length, a JSON array of the model's     *)
(* length); decode, embed: what the decoder and the embedder do with this  *)
(* request's image when the handler calls them (NotCalled when the handler *)
(* returns before the call).  A field the handler never reads on the       *)
(* request's path has one representative value.  The handler hands the     *)
(* parsed array to DeepFace.verify unchecked; no comparison of a vector of *)
(* the wrong length succeeds, so on it the call ends in the first failure  *)
(* the embedder meets (its model, the face detection, the vector).         *)
(***************************************************************************)
Req(ep, face, stored, dec, emb) ==
  [endpoint |-> ep, face |-> face, stored |-> stored, decode |-> dec, embed |-> emb]

NoRequest == Req("none", "absent", "absent", NotCalled, NotCalled)

GenerateRequests ==
  {Req("generate", "absent", "absent", NotCalled, NotCalled)}
  \cup {Req("generate", "present", "absent", d, NotCalled) :
          d \in DecodeOutcomes \ {Ok("pixels")}}
  \cup {Req("generate", "present", "absent", Ok("pixels"), e) : e \in RepresentOutcomes}

CompareRequests ==
  {Req("compare", "absent", "good", NotCalled, NotCalled)}
  \cup {Req("compare", "present", s, NotCalled, NotCalled) : s \in {"absent", "empty"}}
  \cup {Req("compare", "present", "good", d, NotCalled) :
          d \in DecodeOutcomes \ {Ok("pixels")}}
  \cup {Req("compare", "present", "badjson", Ok("pixels"), NotCalled)}
  \cup {Req("compare", "present", "wronglen", Ok("pixels"), e) : e \in EmbedderFailures}
  \cup {Req("compare", "present", "good", Ok("pixels"), e) : e \in VerifyOutcomes}

Requests == GenerateRequests \cup CompareRequests

(***************************************************************************)
(* Responses: (jsonify(...), status).  A key jsonify was not given is      *)
(* "absent"; an error message is its fixed text and the text of the        *)
(* exception formatted into it (detail 0: none).                           *)
(***************************************************************************)
Msg(text, d) == [text |-> text, detail |-> d]
NoError == Msg("", 0)

Resp(status, error, embedding, is_match) ==
  [status |-> status, error |-> error, embedding |-> embedding, is_match |-> is_match]

NoResponse == Resp(0, NoError, "absent", "absent")

\* What a handler run ends in: a response (with what traceback.print_exc wrote),
\* a call into the embedder, or an exception no except clause caught.
Returned(resp, tb) == [kind |-> "response", resp |-> resp, traceback |-> tb]
Calls == [kind |-> "call", resp |-> NoResponse, traceback |-> 0]
Propagated == [kind |-> "propagated", resp |-> NoResponse, traceback |-> 0]

\* Python's `except <clause>` against the class of the raised exception:
\* json.JSONDecodeError is a subclass of ValueError, all are Exceptions.
Catches(clause, cls) ==
  IF clause = "Exception" THEN TRUE
  ELSE IF clause = "ValueError" THEN cls \in {"ValueError", "JSONDecodeError"}
  ELSE clause = cls

\* json.loads(stored_embedding_json), line 96
json_loads(stored) ==
  IF stored = "badjson" THEN Raises("JSONDecodeError", 1) ELSE Ok(stored)

(***************************************************************************)
(* generate_embedding, lines 53-73.                                        *)
(***************************************************************************)
\* A handler whose except clause names ValueError only.
GenerateExceptNarrow(e) ==
  IF Catches("ValueError", e.cls)
  THEN Returned(Resp(500, Msg("An error occurred: ", e.detail), "absent", "absent"),
                e.detail)
  ELSE Propagated

\* lines 71-73: except Exception as e
GenerateExcept(e) ==
  IF Catches("Exception", e.cls)
  THEN Returned(Resp(500, Msg("An error occurred: ", e.detail), "absent", "absent"),
                e.detail)
  ELSE Propagated

\* lines 55-62: from the start of the try block to the call of DeepFace.represent
generate_embedding(req) ==
  IF req.face = "present"
  THEN IF req.decode.kind = "raise" THEN GenerateExcept(req.decode) ELSE Calls
  ELSE Returned(Resp(400, Msg("No image file provided.", 0), "absent", "absent"), 0)

\* A handler that keeps its image in a module-level global: while worker 1 is in
\* DeepFace.represent, every worker's call works on worker 1's image.
represent_returned_shared_image(req) ==
  LET img == IF pc[1] = "in_represent" THEN request[1] ELSE req
  IN IF img.embed.kind = "raise"
     THEN GenerateExcept(img.embed)
     ELSE Returned(Resp(200, NoError, img.embed.value, "absent"), 0)

\* lines 62-69: DeepFace.represent returned or raised
represent_returned(req) ==
  IF req.embed.kind = "raise"
  THEN GenerateExcept(req.embed)
  ELSE Returned(Resp(200, NoError, req.embed.value, "absent"), 0)

(***************************************************************************)
(* compare_faces, lines 81-116.                                            *)
(***************************************************************************)
\* A handler without the except ValueError clause.
CompareExceptNoValueError(e) ==
  IF Catches("Exception", e.cls)
  THEN Returned(Resp(500, Msg("An internal error occurred during comparison: ", e.detail),
                     "absent", "false"),
                e.detail)
  ELSE Propagated

\* lines 112-116: except ValueError as e / except Exception as e
CompareExcept(e) ==
  IF Catches("ValueError", e.cls)
  THEN Returned(Resp(400, Msg("Could not process image: ", e.detail), "absent", "false"), 0)
  ELSE IF Catches("Exception", e.cls)
  THEN Returned(Resp(500, Msg("An internal error occurred during comparison: ", e.detail),
                     "absent", "false"),
                e.detail)
  ELSE Propagated

\* lines 83-99: from the start of the try block to the call of DeepFace.verify
compare_faces(req) ==
  IF req.face # "present"
  THEN Returned(Resp(400, Msg("No face image provided for comparison.", 0),
                     "absent", "absent"), 0)
  ELSE IF req.stored \in {"absent", "empty"}
  THEN Returned(Resp(400, Msg("No stored embedding provided.", 0), "absent", "absent"), 0)
  ELSE IF req.decode.kind = "raise"
  THEN CompareExcept(req.decode)
  ELSE IF json_loads(req.stored).kind = "raise"
  THEN CompareExcept(json_loads(req.stored))
  ELSE Calls

\* lines 99-110: DeepFace.verify returned or raised
verify_returned(req) ==
  IF req.embed.kind = "raise"
  THEN CompareExcept(req.embed)
  ELSE Returned(Resp(200, NoError, "absent", req.embed.value), 0)

(***************************************************************************)
(* The process.                                                            *)
(***************************************************************************)
TypeOK ==
  /\ phase \in {"import", "main", "serving"}
  /\ modelLoaded \in BOOLEAN
  /\ config = ServiceConfig
  /\ pc \in [Slots -> {"idle", "in_represent", "in_verify", "responded", "propagated"}]
  /\ request \in [Slots -> Requests \cup {NoRequest}]
  /\ invoked \in [Slots -> BOOLEAN]
  /\ printed \in [Slots -> 0..NumDetails]
  /\ \A r \in Slots : response[r].status \in {0, 200, 400, 500}

Init ==
  /\ phase = "import"
  /\ modelLoaded = FALSE
  /\ config = ServiceConfig
  /\ pc = [r \in Slots |-> "idle"]
  /\ request = [r \in Slots |-> NoRequest]
  /\ response = [r \in Slots |-> NoResponse]
  /\ invoked = [r \in Slots |-> FALSE]
  /\ printed = [r \in Slots |-> 0]

\* lines 30-35: DeepFace.build_model at import; a failure is printed and dropped
PreloadModel ==
  /\ phase = "import"
  /\ \E built \in BOOLEAN : modelLoaded' = built
  /\ phase' = "main"
  /\ UNCHANGED <<config, pc, request, response, invoked, printed>>

\* lines 121-122: app.run
Run ==
  /\ phase = "main"
  /\ phase' = "serving"
  /\ UNCHANGED <<modelLoaded, config, pc, request, response, invoked, printed>>

\* A worker is free when it holds no request.
Free(r) == pc[r] = "idle"

\* The state of worker r after its handler ran to h; at is where it blocks on a call.
Step(r, h, at) ==
  /\ pc' = [pc EXCEPT ![r] = IF h.kind = "call" THEN at
                             ELSE IF h.kind = "response" THEN "responded"
                             ELSE "propagated"]
  /\ response' = [response EXCEPT ![r] = h.resp]
  /\ printed' = [printed EXCEPT ![r] = h.traceback]

\* POST /generate-embedding arrives and the handler runs up to DeepFace.represent
GenerateEmbedding(r, req) ==
  /\ phase = "serving"
  /\ Free(r)
  /\ request' = [request EXCEPT ![r] = req]
  /\ Step(r, generate_embedding(req), "in_represent")
  /\ invoked' = [invoked EXCEPT ![r] = (generate_embedding(req).kind = "call")]
  /\ UNCHANGED <<phase, modelLoaded, config>>

\* DeepFace.represent comes back (it does not when the call hangs)
RepresentReturns(r) ==
  /\ pc[r] = "in_represent"
  /\ request[r].embed.kind # "hang"
  /\ Step(r, represent_returned(request[r]), "in_represent")
  /\ UNCHANGED <<phase, modelLoaded, config, request, invoked>>

\* POST /compare-faces arrives and the handler runs up to DeepFace.verify
CompareFaces(r, req) ==
  /\ phase = "serving"
  /\ Free(r)
  /\ request' = [request EXCEPT ![r] = req]
  /\ Step(r, compare_faces(req), "in_verify")
  /\ invoked' = [invoked EXCEPT ![r] = (compare_faces(req).kind = "call")]
  /\ UNCHANGED <<phase, modelLoaded, config>>

\* DeepFace.verify comes back (it does not when the call hangs)
VerifyReturns(r) ==
  /\ pc[r] = "in_verify"
  /\ request[r].embed.kind # "hang"
  /\ Step(r, verify_returned(request[r]), "in_verify")
  /\ UNCHANGED <<phase, modelLoaded, config, request, invoked>>

\* The handler has returned: Flask sends the response and the worker is free for
\* the next request.
Finish(r) ==
  /\ pc[r] \in {"responded", "propagated"}
  /\ pc' = [pc EXCEPT ![r] = "idle"]
  /\ request' = [request EXCEPT ![r] = NoRequest]
  /\ response' = [response EXCEPT ![r] = NoResponse]
  /\ invoked' = [invoked EXCEPT ![r] = FALSE]
  /\ printed' = [printed EXCEPT ![r] = 0]
  /\ UNCHANGED <<phase, modelLoaded, config>>

Next ==
  \/ PreloadModel
  \/ Run
  \/ \E r \in Slots : \E req \in GenerateRequests : GenerateEmbedding(r, req)
  \/ \E r \in Slots : RepresentReturns(r)
  \/ \E r \in Slots : \E req \in CompareRequests : CompareFaces(r, req)
  \/ \E r \in Slots : VerifyReturns(r)
  \/ \E r \in Slots : Finish(r)

Spec == Init /\ [][Next]_vars

\* Every worker thread keeps running: a handler whose embedder call has come back
\* goes on to its response.
FairSpec ==
  Spec /\ \A r \in Slots :
            WF_vars(RepresentReturns(r)) /\ WF_vars(VerifyReturns(r)) /\ WF_vars(Finish(r))

(***************************************************************************)
(* Properties.                                                             *)
(***************************************************************************)
Responded(r) == pc[r] = "responded"
OnGenerate(r) == Responded(r) /\ request[r].endpoint = "generate"
OnCompare(r) == Responded(r) /\ request[r].endpoint = "compare"
Decoded(r) == request[r].face = "present" /\ request[r].decode.kind = "ok"
Undecodable(r) == request[r].face = "present" /\ request[r].decode.kind = "raise"

\* C1: on /generate-embedding with a decodable image, a no-face failure of the
\* embedder is answered 400 with an error and no embedding, and a 500 is
\* answered only to a model/internal failure of the embedder.
C1_NoFaceIs400 ==
  \A r \in Slots :
    (OnGenerate(r) /\ Decoded(r)) =>
      /\ NoFaceDetected(request[r].embed) =>
           /\ response[r].status = 400
           /\ response[r].error # NoError
           /\ response[r].embedding = "absent"
      /\ response[r].status = 500 => ModelError(request[r].embed)

\* C2: on both endpoints a face field whose bytes the decoder rejects is
\* answered 400 with a non-empty error, and the embedder is not invoked.
C2_UndecodableIs400 ==
  \A r \in Slots :
    (Responded(r) /\ Undecodable(r)) =>
      /\ response[r].status = 400
      /\ response[r].error.text # ""
      /\ ~invoked[r]

\* C3: on /compare-faces with a decodable image, a stored_embedding that is not
\* JSON or is an array of the wrong length is answered 400.
C3_BadStoredIs400 ==
  \A r \in Slots :
    (OnCompare(r) /\ Decoded(r) /\ request[r].stored \in {"badjson", "wronglen"}) =>
      response[r].status = 400

\* C4: every 400 and 500 response of /compare-faces carries an error and
\* is_match=false, and is_match=true appears only with status 200.
C4_ErrorsCarryIsMatchFalse ==
  \A r \in Slots :
    OnCompare(r) =>
      /\ response[r].status \in {400, 500} =>
           (response[r].error # NoError /\ response[r].is_match = "false")
      /\ response[r].is_match = "true" => response[r].status = 200

C6_AlwaysAResponse ==
  \A r \in Slots :
    /\ pc[r] # "propagated"
    /\ Responded(r) =>
         /\ response[r].status \in {200, 400, 500}
         /\ ENABLED Finish(r)
    /\ (phase = "serving" /\ Free(r)) =>
         /\ ENABLED (\E q \in GenerateRequests : GenerateEmbedding(r, q))
         /\ ENABLED (\E q \in CompareRequests : CompareFaces(r, q))

C6_Witness ==
  \E r1, r2 \in Slots :
    /\ OnGenerate(r1) /\ Undecodable(r1) /\ response[r1].status = 500
    /\ OnCompare(r2) /\ request[r2].embed.kind = "raise" /\ response[r2].status = 500

\* C7: no request is served unless the model warm-up at startup succeeded.
C7_NoServiceWithoutWarmUp ==
  ~modelLoaded => \A r \in Slots : pc[r] = "idle"

\* C8: the error message of a 500 response is the same for two internal
\* failures that differ only in the exception's diagnostic detail.
StripDetail(o) == [o EXCEPT !.detail = 0]
SameButDetail(q1, q2) ==
  [q1 EXCEPT !.decode = StripDetail(@), !.embed = StripDetail(@)]
    = [q2 EXCEPT !.decode = StripDetail(@), !.embed = StripDetail(@)]

C8_GenericInternalError ==
  \A r1, r2 \in Slots :
    (/\ Responded(r1) /\ Responded(r2)
     /\ response[r1].status = 500 /\ response[r2].status = 500
     /\ SameButDetail(request[r1], request[r2])) =>
      response[r1].error = response[r2].error

\* C9: every request whose handler has called the embedder eventually gets a
\* response, also when the embedder call never returns.
C9_EventuallyAnswered ==
  \A r \in Slots : (pc[r] \in {"in_represent", "in_verify"}) ~> Responded(r)

\* C10: the configuration never changes, and two requests with the same payload
\* get the same response, whatever else the service has handled or is handling.
C10_RequestsIndependent ==
  /\ config = ServiceConfig
  /\ \A r1, r2 \in Slots :
       (Responded(r1) /\ Responded(r2) /\ request[r1] = request[r2]) =>
         response[r1] = response[r2]

C10_Witness ==
  \E r1, r2 \in Slots :
    /\ r1 # r2
    /\ OnGenerate(r1) /\ OnGenerate(r2)
    /\ request[r1] = request[r2]
    /\ request[r1].embed.kind = "ok"
    /\ response[r1].embedding = request[r1].embed.value
    /\ response[r2].embedding = response[r1].embedding

====
